---- MODULE Spec2Model ----
(***************************************************************************)
(* Model of src/src/voiceatc_helper.py: the phrase matcher                 *)
(* (VoiceATCHelper.match_phrase), the start-up sequence of                  *)
(* VoiceATCHelper.__init__ and the session loop                             *)
(* VoiceATCHelper.listen_and_process driven from main().                    *)
(*                                                                         *)
(* A Python str is a sequence of one-character strings.  An Optional[str]   *)
(* is a record [some, val]: None is [some |-> FALSE, val |-> <<>>].         *)
(***************************************************************************)
EXTENDS Integers, Sequences, FiniteSets, TLC

\* Longest fragment text handed to match_phrase in SpecMatch.
MaxFragLen == 3
\* Most phrase entries of a mapping table in SpecMatch.
MaxPhrases == 2
\* Most recognizer results delivered in one session of Spec.
MaxFragments == 2

\* Characters of the modelled texts: two lower-case letters, one upper-case
\* letter and one whitespace character.
Alphabet == {"a", "A", "b", " "}
Whitespace == {" "}

\* Strings over a character set, up to a length.
StringsUpTo(chars, n) == UNION {[1..k -> chars] : k \in 0..n}

\* Sequences over a set, up to a length.
SeqsUpTo(S, n) == UNION {[1..k -> S] : k \in 0..n}

---------------------------------------------------------------------------
(* Python string primitives used by the program. *)

\* str.lower(), one character.
LowerChar(c) == IF c = "A" THEN "a" ELSE IF c = "B" THEN "b" ELSE c

\* str.lower()
Lower(s) == [i \in 1..Len(s) |-> LowerChar(s[i])]

\* str.strip(): drop leading and trailing whitespace.
RECURSIVE LStrip(_)
LStrip(s) == IF s # <<>> /\ Head(s) \in Whitespace THEN LStrip(Tail(s)) ELSE s

RECURSIVE RStrip(_)
RStrip(s) ==
  IF s # <<>> /\ s[Len(s)] \in Whitespace
    THEN RStrip(SubSeq(s, 1, Len(s) - 1))
    ELSE s

Strip(s) == RStrip(LStrip(s))

\* Python's  a in b  on two str values: a occurs in b as a contiguous run.
StrIn(a, b) ==
  \E i \in 0..(Len(b) - Len(a)) : SubSeq(b, i + 1, i + Len(a)) = a

\* sep.join(parts) for a list of str.
RECURSIVE Join(_, _)
Join(sep, parts) ==
  IF parts = <<>> THEN <<>>
  ELSE IF Len(parts) = 1 THEN parts[1]
  ELSE parts[1] \o sep \o Join(sep, Tail(parts))

\* Optional[str]
None == [some |-> FALSE, val |-> <<>>]
Some(s) == [some |-> TRUE, val |-> s]

\* Python truthiness of an Optional[str]: None and "" are falsy.
Truthy(o) == o.some /\ o.val # <<>>

---------------------------------------------------------------------------
(* VoiceATCHelper.match_phrase *)

\* The test of line 87 for one variant.
VariantMatches_OneWay(variant, text_lower) ==
  StrIn(Lower(variant), text_lower)

VariantMatches(variant, text_lower) ==
  StrIn(Lower(variant), text_lower) \/ StrIn(text_lower, Lower(variant))

\* The inner loop of line 86: does some variant from position j on match?
RECURSIVE AnyVariantFrom(_, _, _)
AnyVariantFrom(variants, j, text_lower) ==
  IF j > Len(variants) THEN FALSE
  ELSE IF VariantMatches(variants[j], text_lower) THEN TRUE
  ELSE AnyVariantFrom(variants, j + 1, text_lower)

\* The outer loop of line 85 from mapping i on, with the early return of
\* line 88 and the fall-through return of line 89.
RECURSIVE MatchFrom(_, _, _)
MatchFrom(mappings, i, text_lower) ==
  IF i > Len(mappings) THEN None
  ELSE IF AnyVariantFrom(mappings[i].variants, 1, text_lower)
    THEN Some(mappings[i].canonical)
  ELSE MatchFrom(mappings, i + 1, text_lower)

match_phrase(mappings, recognized_text) ==
  MatchFrom(mappings, 1, Strip(Lower(recognized_text)))

---------------------------------------------------------------------------
(* Inputs of a session: the files read at start-up and what the recognizer
   returns. *)

X == <<"X">>
Y == <<"Y">>

\* One entry of the "mappings" list of config/phrase_mappings.json.  Every
\* modelled entry carries both keys; either value may be empty.
Phrase(c, vs) == [canonical |-> c, variants |-> vs]

\* The "mappings" lists of the modelled mapping documents: an empty list, two
\* phrases that share a variant, a phrase with an empty canonical text, and
\* a phrase with an empty variants list.
Documents ==
  { <<>>,
    << Phrase(X, << <<"a">> >>), Phrase(Y, << <<"b">>, <<"A">> >>) >>,
    << Phrase(<<>>, << <<"a">> >>) >>,
    << Phrase(X, <<>>), Phrase(Y, << <<"b">> >>) >> }

\* State of config/phrase_mappings.json when the process starts.
MappingSources ==
  { [state |-> "absent", mappings |-> <<>>],
    [state |-> "malformed", mappings |-> <<>>] }
  \cup { [state |-> "present", mappings |-> d] : d \in Documents }

\* State of config/voiceatc_config.json when the process starts.
ConfigFiles == {"ok", "absent", "malformed"}

\* A JSON value found under "conf": a number or a string.
NumV == [kind |-> "num", str |-> <<>>]
StrV(s) == [kind |-> "str", str |-> s]

\* One element of the "result" list of a recognizer result.
Entry(w, c) == [word |-> w, conf |-> c]

\* json.loads(recognizer.Result()): the recognized text under "text" and,
\* when the recognizer reports words, one entry per word under "result".
\* The modelled results: text only; words with numeric confidences; words
\* whose "conf" is a string equal to the word; a word whose "conf" is a
\* string different from the word; two words.
Results ==
  { [text |-> <<"a">>, result |-> <<>>],
    [text |-> <<"a">>, result |-> << Entry(<<"a">>, NumV) >>],
    [text |-> <<"a">>, result |-> << Entry(<<"a">>, StrV(<<"a">>)) >>],
    [text |-> <<"b">>, result |-> << Entry(<<"b">>, StrV(<<"b">>)) >>],
    [text |-> <<"b">>, result |-> << Entry(<<"b">>, StrV(<<"a">>)) >>],
    [text |-> <<"b", " ", "a">>,
     result |-> << Entry(<<"b">>, StrV(<<"b">>)), Entry(<<"a">>, StrV(<<"a">>)) >>] }

\* Inputs of match_phrase in SpecMatch.
Fragments == StringsUpTo(Alphabet, MaxFragLen)

VariantLists ==
  { <<>>,
    << <<"a">> >>,
    << <<"A", "b">> >>,
    << <<"b">>, <<"a", " ", "a">> >>,
    << <<>> >> }

PhrasePool == { Phrase(c, vs) : c \in {X, Y}, vs \in VariantLists }

Tables == SeqsUpTo(PhrasePool, MaxPhrases)

---------------------------------------------------------------------------
VARIABLES
  pc,               \* position of the process, see PcValues
  config_file,      \* state of the configuration file (environment)
  source,           \* state of the mapping file (environment)
  has_mappings,     \* self.phrase_mappings has been assigned
  phrase_mappings,  \* self.phrase_mappings
  audio,            \* self.audio: "none", "acquired", "terminated"
  stream,           \* local stream: "unbound", "open", "started", "stopped",
                    \* "closed"
  text,             \* local text of listen_and_process
  canonical,        \* local canonical of listen_and_process
  delivered,        \* recognizer results with AcceptWaveform true, in order
  spoken,           \* arguments of the calls of speak_phrase, in order
  log,              \* records written to the logger, in order
  cause,            \* what ended the loop
  exc,              \* exception that reached main's handler
  exit_status       \* "none" while running, then "0", "1" or "sigint"
                    \* (death by an uncaught KeyboardInterrupt)

vars ==
  << pc, config_file, source, has_mappings, phrase_mappings, audio, stream,
     text, canonical, delivered, spoken, log, cause, exc, exit_status >>

PcValues ==
  { "load_config", "load_mappings", "init_tts", "setup_recognizer",
    "Idle", "Starting", "Listening", "Matching", "Dispatching", "Speaking",
    "Stopped", "Exited" }

\* A logger record.
Rec(m, t, c) == [msg |-> m, text |-> t, canonical |-> c]
Msg(m) == Rec(m, <<>>, <<>>)

Init ==
  /\ pc = "load_config"
  /\ config_file \in ConfigFiles
  /\ source \in MappingSources
  /\ has_mappings = FALSE
  /\ phrase_mappings = <<>>
  /\ audio = "none"
  /\ stream = "unbound"
  /\ text = <<>>
  /\ canonical = None
  /\ delivered = <<>>
  /\ spoken = <<>>
  /\ log = <<>>
  /\ cause = "none"
  /\ exc = "none"
  /\ exit_status = "none"

---------------------------------------------------------------------------
(* Start-up: main() constructing VoiceATCHelper.  KeyboardInterrupt may
   arrive at any point; outside the try block of line 108 nothing catches
   it (it is no Exception) and the process dies with what it holds. *)

\* The process dies by KeyboardInterrupt after writing the records.
InterruptedAtStartup(records) ==
  /\ pc' = "Exited"
  /\ exc' = "KeyboardInterrupt"
  /\ exit_status' = "sigint"
  /\ log' = log \o records

\* The process ends before listen_and_process is entered, writing the
\* records and exiting with status 1: sys.exit(1) in a set-up method (e is
\* "none"), or exception e caught by main's handler (lines 144-146).
\* KeyboardInterrupt may cut the records short or arrive before the exit.
ExitAtStartup(records, e) ==
  \/ /\ pc' = "Exited"
     /\ exit_status' = "1"
     /\ exc' = e
     /\ log' = log \o records
  \/ \E k \in 1..Len(records) : InterruptedAtStartup(SubSeq(records, 1, k))

\* KeyboardInterrupt between two start-up steps.
StartupInterrupt ==
  /\ pc \in {"load_config", "load_mappings", "init_tts", "setup_recognizer",
             "Idle"}
  /\ InterruptedAtStartup(<<>>)
  /\ UNCHANGED << config_file, source, has_mappings, phrase_mappings, audio,
                  stream, text, canonical, delivered, spoken, cause >>

\* _load_config, lines 49-55.
LoadConfig ==
  /\ pc = "load_config"
  /\ \/ /\ config_file = "absent"
        /\ ExitAtStartup(<< Msg("Config file not found") >>, "none")
     \/ /\ config_file = "malformed"
        /\ ExitAtStartup(<< Msg("Application error") >>, "JSONDecodeError")
     \/ /\ config_file = "ok"
        /\ pc' = "load_mappings"
        /\ UNCHANGED << exit_status, log, exc >>
  /\ UNCHANGED << config_file, source, has_mappings, phrase_mappings, audio,
                  stream, text, canonical, delivered, spoken, cause >>

\* _load_phrase_mappings, lines 57-65, and the assignment of line 42.
LoadPhraseMappings ==
  /\ pc = "load_mappings"
  /\ \/ /\ source.state = "absent"
        /\ \/ /\ log' = Append(log, Msg("Phrase mappings file not found"))
              /\ phrase_mappings' = <<>>
              /\ has_mappings' = TRUE
              /\ pc' = "init_tts"
              /\ UNCHANGED << exit_status, exc >>
           \/ /\ InterruptedAtStartup(<< Msg("Phrase mappings file not found") >>)
              /\ UNCHANGED << phrase_mappings, has_mappings >>
     \/ /\ source.state = "malformed"
        /\ ExitAtStartup(<< Msg("Application error") >>, "JSONDecodeError")
        /\ UNCHANGED << phrase_mappings, has_mappings >>
     \/ /\ source.state = "present"
        /\ phrase_mappings' = source.mappings
        /\ has_mappings' = TRUE
        /\ pc' = "init_tts"
        /\ UNCHANGED << exit_status, log, exc >>
  /\ UNCHANGED << config_file, source, audio, stream, text, canonical,
                  delivered, spoken, cause >>

\* pyttsx3.init(), line 45.
InitTTS(outcome) ==
  /\ pc = "init_tts"
  /\ \/ /\ outcome = "ok"
        /\ pc' = "setup_recognizer"
        /\ UNCHANGED << exit_status, log, exc >>
     \/ /\ outcome = "error"
        /\ ExitAtStartup(<< Msg("Application error") >>, "Exception")
  /\ UNCHANGED << config_file, source, has_mappings, phrase_mappings, audio,
                  stream, text, canonical, delivered, spoken, cause >>

\* _setup_recognizer, lines 67-80, and the record of line 47.  Outcome
\* "interrupt" is KeyboardInterrupt after line 76 has acquired the audio
\* handle, before the record of line 77 or before that of line 47.
SetupRecognizer(outcome) ==
  /\ pc = "setup_recognizer"
  /\ \/ /\ outcome = "ok"
        /\ audio' = "acquired"
        /\ log' = log \o << Msg("Recognizer setup complete"),
                            Msg("VoiceATC Helper initialized successfully") >>
        /\ pc' = "Idle"
        /\ UNCHANGED << exit_status, exc >>
     \/ /\ outcome = "interrupt"
        /\ audio' = "acquired"
        /\ \E recs \in {<<>>, << Msg("Recognizer setup complete") >>} :
             InterruptedAtStartup(recs)
     \/ /\ outcome = "model_missing"
        /\ ExitAtStartup(<< Msg("Vosk model not found"), Msg("Download from") >>,
                         "none")
        /\ UNCHANGED audio
     \/ /\ outcome = "error"
        /\ ExitAtStartup(<< Msg("Failed to setup recognizer") >>, "none")
        /\ UNCHANGED audio
  /\ UNCHANGED << config_file, source, has_mappings, phrase_mappings, stream,
                  text, canonical, delivered, spoken, cause >>

---------------------------------------------------------------------------
(* listen_and_process, lines 106-137, and main's handler, lines 144-146. *)

\* Exceptions that main's handler of line 144 catches.
IsException(e) == e \notin {"none", "KeyboardInterrupt"}

\* How the finally block of lines 134-137 ends: all three calls return; one
\* of them raises; stream is unbound at line 135; or KeyboardInterrupt
\* arrives after n of the three calls have taken effect.
ReleaseOutcomes ==
  { "released", "unbound_error", "stop_error", "close_error",
    "terminate_error", "interrupt_0", "interrupt_1", "interrupt_2",
    "interrupt_3" }

\* How main ends once listen_and_process is left: it runs to its end, or
\* KeyboardInterrupt arrives in its handler before or after the record of
\* line 145.
MainOutcomes == { "done", "interrupt_before_record", "interrupt_after_record" }

\* Number of calls of lines 135-137 that took effect.
ReleaseLevel(rel) ==
  CASE rel \in {"unbound_error", "stop_error", "interrupt_0"} -> 0
    [] rel \in {"close_error", "interrupt_1"} -> 1
    [] rel \in {"terminate_error", "interrupt_2"} -> 2
    [] OTHER -> 3

\* Exception pending when the finally block is left.
PendingAfter(e, rel) ==
  CASE rel = "released" -> e
    [] rel = "unbound_error" -> "UnboundLocalError"
    [] rel \in {"stop_error", "close_error", "terminate_error"} -> "OSError"
    [] OTHER -> "KeyboardInterrupt"

\* The finally block entered with the stream in state st, exception e
\* pending and records written on the way, then main.  With stream unbound
\* line 135 raises UnboundLocalError; an exception raised in the block
\* replaces e and skips the remaining calls.  An Exception is logged by
\* main, which exits with 1; KeyboardInterrupt is not caught by main.
Finally(st, e, records, rel, mn) ==
  LET n == ReleaseLevel(rel)
      p == PendingAfter(e, rel)
  IN /\ IF st = "unbound"
          THEN rel \in {"unbound_error", "interrupt_0"}
          ELSE rel # "unbound_error"
     /\ IsException(p) \/ mn = "done"
     /\ stream' = IF n = 0 THEN st ELSE IF n = 1 THEN "stopped" ELSE "closed"
     /\ audio' = IF n = 3 THEN "terminated" ELSE audio
     /\ exc' = IF mn = "done" THEN p ELSE "KeyboardInterrupt"
     /\ log' = (log \o records) \o
               (IF IsException(p) /\ mn # "interrupt_before_record"
                  THEN << Msg("Application error") >> ELSE <<>>)
     /\ exit_status' = IF mn # "done" \/ p = "KeyboardInterrupt" THEN "sigint"
                       ELSE IF p = "none" THEN "0" ELSE "1"

\* The loop is left for reason why with the stream in state st.
LeaveLoopFrom(st, why, e, records) ==
  /\ cause' = why
  /\ pc' = "Stopped"
  /\ \E rel \in ReleaseOutcomes :
       \E mn \in MainOutcomes : Finally(st, e, records, rel, mn)

LeaveLoop(why, e, records) == LeaveLoopFrom(stream, why, e, records)

\* KeyboardInterrupt in the try block, caught by the handler of lines
\* 132-133, with the records pre written before it: the handler logs and
\* the finally block is entered with nothing pending, or a further
\* KeyboardInterrupt arrives in the handler before or after its record and
\* stays pending.
StopSignal(st, pre) ==
  \E h \in {"logged", "interrupt_before_record", "interrupt_after_record"} :
    LeaveLoopFrom(st, "stop_signal",
                  IF h = "logged" THEN "none" ELSE "KeyboardInterrupt",
                  pre \o (IF h = "interrupt_before_record"
                            THEN <<>> ELSE << Msg("Shutting down") >>))

\* Lines 109-115: self.audio.open.
OpenStream(outcome) ==
  /\ pc = "Idle"
  /\ \/ /\ outcome = "ok"
        /\ stream' = "open"
        /\ pc' = "Starting"
        /\ UNCHANGED << audio, log, cause, exc, exit_status >>
     \/ /\ outcome = "open_error"
        /\ LeaveLoop("open_error", "OSError", <<>>)
     \/ /\ outcome = "open_interrupt"
        /\ StopSignal(stream, <<>>)
  /\ UNCHANGED << config_file, source, has_mappings, phrase_mappings, text,
                  canonical, delivered, spoken >>

\* Lines 116-118: start_stream, KaldiRecognizer, the "Listening" record.
StartStream(outcome) ==
  /\ pc = "Starting"
  /\ \/ /\ outcome = "ok"
        /\ stream' = "started"
        /\ log' = Append(log, Msg("Listening"))
        /\ pc' = "Listening"
        /\ UNCHANGED << audio, cause, exc, exit_status >>
     \/ /\ outcome = "start_error"
        /\ LeaveLoopFrom("open", "start_error", "OSError", <<>>)
     \/ /\ outcome = "kaldi_error"
        /\ LeaveLoopFrom("started", "kaldi_error", "Exception", <<>>)
  /\ UNCHANGED << config_file, source, has_mappings, phrase_mappings, text,
                  canonical, delivered, spoken >>

\* Line 125: " ".join([r["conf"] for r in recognized]) raises TypeError
\* unless every "conf" is a str.
AllStr(recognized) ==
  \A i \in 1..Len(recognized) : recognized[i].conf.kind = "str"

ConfText(recognized) ==
  Join(<< " " >>, [i \in 1..Len(recognized) |-> recognized[i].conf.str])

\* Lines 120-125 with AcceptWaveform false: the loop reads again.
ReadSilence ==
  /\ pc = "Listening"
  /\ UNCHANGED vars

\* Lines 120-125 with AcceptWaveform true and result r.
ReadResult(r) ==
  /\ pc = "Listening"
  /\ Len(delivered) < MaxFragments
  /\ delivered' = Append(delivered, r)
  /\ IF r.result = <<>>
       THEN UNCHANGED << pc, text, audio, stream, log, cause, exc, exit_status >>
       ELSE IF AllStr(r.result)
         THEN /\ text' = ConfText(r.result)
              /\ pc' = "Matching"
              /\ UNCHANGED << audio, stream, log, cause, exc, exit_status >>
         ELSE /\ LeaveLoop("type_error", "TypeError", <<>>)
              /\ UNCHANGED text
  /\ UNCHANGED << config_file, source, has_mappings, phrase_mappings,
                  canonical, spoken >>

\* Lines 121-125 with AcceptWaveform true and KeyboardInterrupt before the
\* text is assigned.
ReadInterrupted(r) ==
  /\ pc = "Listening"
  /\ Len(delivered) < MaxFragments
  /\ delivered' = Append(delivered, r)
  /\ StopSignal(stream, <<>>)
  /\ UNCHANGED << config_file, source, has_mappings, phrase_mappings, text,
                  canonical, spoken >>

\* ReadError with the failure logged and the loop continuing.
ReadError_Continues ==
  /\ pc = "Listening"
  /\ cause' = "recognizer_error"
  /\ log' = Append(log, Msg("Recognizer error"))
  /\ UNCHANGED << pc, audio, stream, exc, exit_status >>
  /\ UNCHANGED << config_file, source, has_mappings, phrase_mappings, text,
                  canonical, delivered, spoken >>

\* Lines 120-122 raising: the recognizer fails to deliver.
ReadError ==
  /\ pc = "Listening"
  /\ LeaveLoop("recognizer_error", "OSError", <<>>)
  /\ UNCHANGED << config_file, source, has_mappings, phrase_mappings, text,
                  canonical, delivered, spoken >>

\* KeyboardInterrupt inside the try block after audio.open, caught by lines
\* 132-133: during lines 116-118 (stream opened, perhaps started), while
\* reading, matching, dispatching (before or after the "Recognized" record
\* of line 128) or inside speak_phrase, whose handler does not catch it.
Interrupt ==
  /\ pc \in {"Starting", "Listening", "Matching", "Dispatching", "Speaking"}
  /\ \E st \in (IF pc = "Starting" THEN {"open", "started"} ELSE {stream}) :
       \E pre \in (IF pc = "Dispatching" /\ Truthy(canonical)
                     THEN {<<>>, << Rec("Recognized", text, canonical.val) >>}
                     ELSE {<<>>}) :
         StopSignal(st, pre)
  /\ UNCHANGED << config_file, source, has_mappings, phrase_mappings, text,
                  canonical, delivered, spoken >>

\* Match with the variants of the table lower-cased in place.
Match_LowersTable ==
  /\ pc = "Matching"
  /\ canonical' = match_phrase(phrase_mappings, text)
  /\ phrase_mappings' =
       [i \in 1..Len(phrase_mappings) |->
          [phrase_mappings[i] EXCEPT !.variants =
             [j \in 1..Len(phrase_mappings[i].variants) |->
                Lower(phrase_mappings[i].variants[j])]]]
  /\ pc' = "Dispatching"
  /\ UNCHANGED << config_file, source, has_mappings, audio, stream, text,
                  delivered, spoken, log, cause, exc, exit_status >>

\* Line 126.
Match ==
  /\ pc = "Matching"
  /\ canonical' = match_phrase(phrase_mappings, text)
  /\ pc' = "Dispatching"
  /\ UNCHANGED << config_file, source, has_mappings, phrase_mappings, audio,
                  stream, text, delivered, spoken, log, cause, exc,
                  exit_status >>

\* Lines 127-129: the "Recognized" record and the call of speak_phrase.
DispatchSpeak ==
  /\ pc = "Dispatching"
  /\ Truthy(canonical)
  /\ log' = Append(log, Rec("Recognized", text, canonical.val))
  /\ spoken' = Append(spoken, canonical.val)
  /\ pc' = "Speaking"
  /\ UNCHANGED << config_file, source, has_mappings, phrase_mappings, audio,
                  stream, text, canonical, delivered, cause, exc,
                  exit_status >>

\* SpeakPhrase with the synthesizer's exception let out of speak_phrase.
SpeakPhrase_Propagates(outcome) ==
  /\ pc = "Speaking"
  /\ IF outcome = "ok"
       THEN /\ log' = Append(log, Rec("Spoke", <<>>, canonical.val))
            /\ pc' = "Listening"
            /\ UNCHANGED << audio, stream, cause, exc, exit_status >>
       ELSE LeaveLoop("tts_error", "Exception", <<>>)
  /\ UNCHANGED << config_file, source, has_mappings, phrase_mappings, text,
                  canonical, delivered, spoken >>

\* speak_phrase, lines 91-104, running to its end: the synthesizer speaks
\* and line 102 logs, or it raises an Exception and line 104 logs.
SpeakPhrase(outcome) ==
  /\ pc = "Speaking"
  /\ log' = Append(log, IF outcome = "ok" THEN Rec("Spoke", <<>>, canonical.val)
                                           ELSE Msg("TTS error"))
  /\ pc' = "Listening"
  /\ UNCHANGED << config_file, source, has_mappings, phrase_mappings, audio,
                  stream, text, canonical, delivered, spoken, cause, exc,
                  exit_status >>

\* Lines 130-131.
DispatchNoMatch ==
  /\ pc = "Dispatching"
  /\ ~Truthy(canonical)
  /\ log' = Append(log, Rec("No match", text, <<>>))
  /\ pc' = "Listening"
  /\ UNCHANGED << config_file, source, has_mappings, phrase_mappings, audio,
                  stream, text, canonical, delivered, spoken, cause, exc,
                  exit_status >>

Next ==
  \/ LoadConfig
  \/ LoadPhraseMappings
  \/ \E o \in {"ok", "error"} : InitTTS(o)
  \/ \E o \in {"ok", "interrupt", "model_missing", "error"} : SetupRecognizer(o)
  \/ StartupInterrupt
  \/ \E o \in {"ok", "open_error", "open_interrupt"} : OpenStream(o)
  \/ \E o \in {"ok", "start_error", "kaldi_error"} : StartStream(o)
  \/ ReadSilence
  \/ \E r \in Results : ReadResult(r)
  \/ \E r \in Results : ReadInterrupted(r)
  \/ ReadError
  \/ Interrupt
  \/ Match
  \/ DispatchSpeak
  \/ \E o \in {"ok", "error"} : SpeakPhrase(o)
  \/ DispatchNoMatch

Spec == Init /\ [][Next]_vars

---------------------------------------------------------------------------
(* match_phrase on its own: every table of Tables, every fragment of
   Fragments. *)

InitMatch ==
  /\ pc = "Matching"
  /\ config_file = "ok"
  /\ phrase_mappings \in Tables
  /\ source = [state |-> "present", mappings |-> phrase_mappings]
  /\ has_mappings = TRUE
  /\ audio = "acquired"
  /\ stream = "started"
  /\ text \in Fragments
  /\ canonical = None
  /\ delivered = <<>>
  /\ spoken = <<>>
  /\ log = <<>>
  /\ cause = "none"
  /\ exc = "none"
  /\ exit_status = "none"

NextMatch == Match

SpecMatch == InitMatch /\ [][NextMatch]_vars

---------------------------------------------------------------------------
(* Properties of match_phrase, checked under SpecMatch. *)

\* The fragment text as the matcher compares it.
NormalizedText == Strip(Lower(text))

\* Phrase p has a variant in bidirectional substring containment with nf.
PhraseHasMatch(p, nf) ==
  \E j \in 1..Len(p.variants) :
    \/ StrIn(Lower(p.variants[j]), nf)
    \/ StrIn(nf, Lower(p.variants[j]))

\* Positions of the phrases of the table that have a matching variant.
Hits(table, nf) == { i \in 1..Len(table) : PhraseHasMatch(table[i], nf) }

FirstHit(table, nf) ==
  CHOOSE i \in Hits(table, nf) : \A k \in Hits(table, nf) : i <= k

\* C1: for a table with at least one phrase that has at least one variant,
\* match_phrase on an empty or whitespace-only fragment returns None.
C1_EmptyFragmentIsNoMatch ==
  ( /\ pc = "Dispatching"
    /\ NormalizedText = <<>>
    /\ \E i \in 1..Len(phrase_mappings) : phrase_mappings[i].variants # <<>> )
  => canonical = None

\* C2: for a fragment whose normalized text is non-empty, match_phrase returns
\* the canonical text of the first phrase in table order that has a variant in
\* bidirectional substring containment with the normalized fragment, and None
\* exactly when no phrase has one.
C2_FirstMatchingPhrase ==
  (pc = "Dispatching" /\ NormalizedText # <<>>)
  => IF Hits(phrase_mappings, NormalizedText) = {}
       THEN canonical = None
       ELSE canonical =
              Some(phrase_mappings[FirstHit(phrase_mappings, NormalizedText)].canonical)

\* C2 witness: two phrases with different canonical texts both match a
\* non-empty fragment only because the fragment lies inside a longer variant,
\* and the first one was returned.
C2_Witness ==
  /\ pc = "Dispatching"
  /\ NormalizedText # <<>>
  /\ Len(phrase_mappings) = 2
  /\ Hits(phrase_mappings, NormalizedText) = {1, 2}
  /\ phrase_mappings[1].canonical # phrase_mappings[2].canonical
  /\ \A j \in 1..Len(phrase_mappings[1].variants) :
       ~StrIn(Lower(phrase_mappings[1].variants[j]), NormalizedText)
  /\ canonical = Some(phrase_mappings[1].canonical)

---------------------------------------------------------------------------
(* Properties of the session, checked under Spec. *)

\* The recognized text of a delivered result.
FragmentText(r) == r.text

\* Canonical texts of the delivered fragments that match, in arrival order.
RECURSIVE CanonicalsOf(_, _)
CanonicalsOf(table, rs) ==
  IF rs = <<>> THEN <<>>
  ELSE LET m == match_phrase(table, FragmentText(Head(rs)))
       IN (IF m.some THEN << m.val >> ELSE <<>>) \o CanonicalsOf(table, Tail(rs))

\* The records of the log that report a match decision, in order.
RECURSIVE Diagnostics(_)
Diagnostics(l) ==
  IF l = <<>> THEN <<>>
  ELSE (IF Head(l).msg \in {"Recognized", "No match"} THEN << Head(l) >> ELSE <<>>)
       \o Diagnostics(Tail(l))

\* C3: the texts handed to speak_phrase are exactly the canonical phrases of
\* the delivered fragments that match, in arrival order (stated whenever no
\* fragment is in flight).
C3_SpokenInArrivalOrder ==
  pc = "Listening" => spoken = CanonicalsOf(phrase_mappings, delivered)

\* C4: a call of speak_phrase that is not cut short by the stop signal
\* returns to Listening whether or not synthesis failed: the outcome is
\* logged, and the loop, its resources and the table are as a successful
\* synthesis leaves them.
C4_SynthesisFailureIsolated ==
  [][ (pc = "Speaking" /\ cause' # "stop_signal")
      => /\ pc' = "Listening"
         /\ Len(log') = Len(log) + 1
         /\ log'[Len(log')].msg \in {"Spoke", "TTS error"}
         /\ UNCHANGED << cause, exc, exit_status, stream, audio,
                         phrase_mappings, delivered, spoken >> ]_vars

\* Position of the first "TTS error" record of the log, 0 when there is none.
FirstTTSError ==
  IF \E i \in 1..Len(log) : log[i].msg = "TTS error"
    THEN CHOOSE i \in 1..Len(log) :
           /\ log[i].msg = "TTS error"
           /\ \A k \in 1..(i - 1) : log[k].msg # "TTS error"
    ELSE 0

\* C4 witness: after a synthesis failure a later fragment was matched and
\* spoken.
C4_Witness ==
  /\ FirstTTSError > 0
  /\ \E j \in (FirstTTSError + 1)..Len(log) : log[j].msg = "Spoke"
  /\ Len(spoken) >= 2

\* C5: a recognizer failure moves the loop to Stopped in the same step, and
\* from Stopped nothing is matched, dispatched or delivered any more.
C5_RecognizerFailureIsFatal ==
  [][ /\ (cause' = "recognizer_error"
            => pc' = "Stopped" /\ exit_status' \in {"1", "sigint"})
      /\ (pc = "Stopped"
            => UNCHANGED << pc, text, canonical, spoken, delivered >>) ]_vars

\* C5 witness: the recognizer failed after a fragment had been spoken.
C5_Witness ==
  /\ cause = "recognizer_error"
  /\ pc = "Stopped"
  /\ exc = "OSError"
  /\ Len(spoken) >= 1

\* C6: on every exit path the loop reaches Stopped with the stream, if it
\* was opened, closed, the audio handle terminated, and no failure raised by
\* the release step itself.
C6_ResourcesReleased ==
  pc = "Stopped"
  => /\ audio = "terminated"
     /\ stream \in {"unbound", "closed"}
     /\ exc # "UnboundLocalError"

\* The mapping source is absent, malformed, or holds an entry with an empty
\* variants list or an empty canonical text.
BadSource ==
  \/ source.state \in {"absent", "malformed"}
  \/ \E i \in 1..Len(source.mappings) :
       \/ source.mappings[i].variants = <<>>
       \/ source.mappings[i].canonical = <<>>

\* C7: with a bad mapping source no table is constructed and the process
\* never gets past loading.
C7_LoadAllOrNothing ==
  BadSource
  => /\ ~has_mappings
     /\ pc \in {"load_config", "load_mappings", "Exited"}

\* C8: every delivered fragment has exactly one diagnostic record, in order,
\* carrying the fragment's text and, when a phrase matched it, reporting the
\* match (stated whenever no fragment is in flight).
C8_OneDiagnosticPerFragment ==
  pc = "Listening"
  => LET d == Diagnostics(log)
     IN /\ Len(d) = Len(delivered)
        /\ \A i \in 1..Len(d) :
             /\ d[i].text = FragmentText(delivered[i])
             /\ match_phrase(phrase_mappings, FragmentText(delivered[i])).some
                  => d[i].msg = "Recognized"

\* C9: a delivered fragment is handed to the matcher with its recognized
\* text, the match is followed by the dispatch and the dispatch by Listening;
\* only the stop signal ends the loop while a fragment is processed.
C9_FragmentCycle ==
  [][ /\ (Len(delivered') > Len(delivered) /\ cause' # "stop_signal"
            => /\ pc' = "Matching"
               /\ text' = FragmentText(delivered'[Len(delivered')]))
      /\ (pc = "Matching" /\ cause' # "stop_signal" => pc' = "Dispatching")
      /\ (pc = "Dispatching" /\ cause' # "stop_signal"
            => pc' = (IF Truthy(canonical) THEN "Speaking" ELSE "Listening"))
      /\ (pc = "Speaking" /\ cause' # "stop_signal" => pc' = "Listening")
    ]_vars

\* Texts the matcher is probed with in C10.
ProbeTexts == StringsUpTo({"a", "b"}, 1)

\* C10: once loaded, the mapping table is never changed by any step, so
\* match_phrase gives the same result for the same text before and after
\* every step.
C10_TableImmutable ==
  [][ has_mappings
      => /\ has_mappings'
         /\ phrase_mappings' = phrase_mappings
         /\ \A f \in ProbeTexts :
              match_phrase(phrase_mappings', f) = match_phrase(phrase_mappings, f)
    ]_vars

\* C10 witness: a session that matched and spoke a fragment has ended with
\* the table still the one that was loaded.
C10_Witness ==
  /\ pc = "Stopped"
  /\ has_mappings
  /\ Len(spoken) >= 1
  /\ phrase_mappings = source.mappings
  /\ \E i \in 1..Len(phrase_mappings) :
       \E j \in 1..Len(phrase_mappings[i].variants) :
         phrase_mappings[i].variants[j] # Lower(phrase_mappings[i].variants[j])

====
